---- MODULE Spec2Model ----
(***************************************************************************)
(* Pool-type dispatch and decode pipeline of src/src/parsing.rs:           *)
(* get_info_struct fetches an account's bytes through a borrowed RpcClient *)
(* and decodes them with the Anchor account type of the requested pool     *)
(* kind.  Each call is a two-step sequence (get_account_data, then         *)
(* try_deserialize); two calls run interleaved against the one fetcher.    *)
(***************************************************************************)
EXTENDS Integers, Sequences, FiniteSets, TLC

\* Longest account payload (bytes after the discriminator) the fetcher returns.
MaxPayload == 3

\* Values a payload byte takes.
ByteVals == {0, 1}

\* The concurrent calls of get_info_struct.
Calls == {"c1", "c2"}

\* Account addresses (Pubkey values) a selector may carry.
Pubkeys == {"addrA", "addrB"}

\* Causes of a ClientError returned by the fetcher.
ClientErrors == {"AccountNotFound", "Timeout"}

(***************************************************************************)
(* PoolType, parsing.rs:19-44                                              *)
(***************************************************************************)
Kinds == {"PumpFun", "RaydiumCpmmAmm", "RaydiumCamm"}

PoolType == [kind : Kinds, program_id : Pubkeys]

program_id(pool_type) ==
    CASE pool_type.kind = "PumpFun" -> pool_type.program_id
      [] pool_type.kind = "RaydiumCpmmAmm" -> pool_type.program_id
      [] pool_type.kind = "RaydiumCamm" -> pool_type.program_id

pool_name(pool_type) ==
    CASE pool_type.kind = "PumpFun" -> "PumpFun AMM"
      [] pool_type.kind = "RaydiumCpmmAmm" -> "Raydium AMM"
      [] pool_type.kind = "RaydiumCamm" -> "Raydium AMM"

(***************************************************************************)
(* The three account types brought in by declare_program!, parsing.rs:6-13.*)
(* AccountType is the Rust type, AccountName the account's name in its     *)
(* program: the two Raydium programs both call theirs PoolState.           *)
(***************************************************************************)
AccountType(kind) ==
    CASE kind = "PumpFun" -> "pamm::accounts::Pool"
      [] kind = "RaydiumCpmmAmm" -> "raydium_amm_cpmm_new::accounts::PoolState"
      [] kind = "RaydiumCamm" -> "raydium_camm::accounts::PoolState"

AccountName(kind) ==
    CASE kind = "PumpFun" -> "Pool"
      [] kind = "RaydiumCpmmAmm" -> "PoolState"
      [] kind = "RaydiumCamm" -> "PoolState"

\* Anchor's account discriminator: the first 8 bytes of sha256("account:<Name>").
DISCRIMINATOR(kind) ==
    CASE AccountName(kind) = "Pool" -> <<241, 154, 109, 4, 17, 177, 109, 188>>
      [] AccountName(kind) = "PoolState" -> <<247, 237, 227, 245, 215, 195, 222, 70>>

\* Field widths in bytes of each account type, in layout order (scaled down:
\* the real layouts are in the programs' IDLs).
Layout(kind) ==
    CASE kind = "PumpFun" -> <<1, 2>>
      [] kind = "RaydiumCpmmAmm" -> <<2>>
      [] kind = "RaydiumCamm" -> <<2, 1>>

(***************************************************************************)
(* Result values                                                           *)
(***************************************************************************)
NoPool == [type |-> "none", fields |-> <<>>]

\* Result<Vec<u8>, ClientError> of get_account_data
RpcOk(bytes) == [ok |-> TRUE, data |-> bytes, err |-> "none"]
RpcErr(e) == [ok |-> FALSE, data |-> <<>>, err |-> e]

\* Result<T, anchor_lang::error::Error> of try_deserialize
DeOk(pool) == [ok |-> TRUE, pool |-> pool, err |-> "none"]
DeErr(e) == [ok |-> FALSE, pool |-> NoPool, err |-> e]

\* PoolError, parsing.rs:46-60, and Result<_, PoolError>
RpcError(e) == [tag |-> "RpcError", variant |-> "none", pool |-> NoPool, cause |-> e]
DeserializeError(e) ==
    [tag |-> "DeserializeError", variant |-> "none", pool |-> NoPool, cause |-> e]
OkPool(pool) == [tag |-> "Ok", variant |-> "none", pool |-> pool, cause |-> "none"]

\* AmmPool, parsing.rs:107-114, inside Ok
AmmPool(variant, pool) ==
    [tag |-> "Ok", variant |-> variant, pool |-> pool, cause |-> "none"]

\* A call that has not returned.
Pending == [tag |-> "Pending", variant |-> "none", pool |-> NoPool, cause |-> "none"]

(***************************************************************************)
(* The decoder: AccountDeserialize::try_deserialize of an Anchor account.  *)
(***************************************************************************)
RECURSIVE LittleEndian(_)
LittleEndian(bytes) ==
    IF bytes = <<>> THEN 0
    ELSE Head(bytes) + 256 * LittleEndian(Tail(bytes))

Drop(buf, n) == SubSeq(buf, n + 1, Len(buf))

\* Borsh: fields are read in order from the front of the buffer, each a
\* fixed-width little-endian number appended to the fields read so far; a
\* field the buffer cannot supply fails the whole read; bytes left over
\* after the last field are ignored.
RECURSIVE ReadFields(_, _, _)
ReadFields(widths, buf, read) ==
    IF widths = <<>> THEN [ok |-> TRUE, fields |-> read]
    ELSE IF Len(buf) < Head(widths) THEN [ok |-> FALSE, fields |-> <<>>]
    ELSE ReadFields(Tail(widths), Drop(buf, Head(widths)),
                    Append(read, LittleEndian(SubSeq(buf, 1, Head(widths)))))

try_deserialize_unchecked(kind, buf) ==
    LET r == ReadFields(Layout(kind), Drop(buf, Len(DISCRIMINATOR(kind))), <<>>)
    IN  IF r.ok
        THEN DeOk([type |-> AccountType(kind), fields |-> r.fields])
        ELSE DeErr("AccountDidNotDeserialize")

try_deserialize(kind, buf) ==
    IF Len(buf) < Len(DISCRIMINATOR(kind))
    THEN DeErr("AccountDiscriminatorNotFound")
    ELSE IF SubSeq(buf, 1, Len(DISCRIMINATOR(kind))) # DISCRIMINATOR(kind)
    THEN DeErr("AccountDiscriminatorMismatch")
    ELSE try_deserialize_unchecked(kind, buf)

(***************************************************************************)
(* The per-kind handlers, parsing.rs:62-105, as functions of what          *)
(* get_account_data returned.                                              *)
(***************************************************************************)
\* try_deserialize(..).unwrap_or_default() in place of the match.
handle_pump_amm_deserialize_or_default(rpc) ==
    IF ~rpc.ok THEN RpcError(rpc.err)
    ELSE LET r == try_deserialize("PumpFun", rpc.data)
         IN  IF ~r.ok
             THEN OkPool([type |-> AccountType("PumpFun"), fields |-> <<0, 0>>])
             ELSE OkPool(r.pool)

handle_pump_amm_deserialize(rpc) ==
    IF ~rpc.ok THEN RpcError(rpc.err)
    ELSE LET r == try_deserialize("PumpFun", rpc.data)
         IN  IF ~r.ok THEN DeserializeError(r.err) ELSE OkPool(r.pool)

handle_raydium_cpmm_amm_deserialize(rpc) ==
    IF ~rpc.ok THEN RpcError(rpc.err)
    ELSE LET r == try_deserialize("RaydiumCpmmAmm", rpc.data)
         IN  IF ~r.ok THEN DeserializeError(r.err) ELSE OkPool(r.pool)

\* The discriminator checked, the fields read as far as the bytes go.
handle_raydium_camm_deserialize_best_effort(rpc) ==
    IF ~rpc.ok THEN RpcError(rpc.err)
    ELSE LET r == try_deserialize("RaydiumCamm", rpc.data)
         IN  IF r.ok THEN OkPool(r.pool)
             ELSE IF r.err = "AccountDidNotDeserialize"
             THEN OkPool([type |-> AccountType("RaydiumCamm"), fields |-> <<0, 0>>])
             ELSE DeserializeError(r.err)

handle_raydium_camm_deserialize(rpc) ==
    IF ~rpc.ok THEN RpcError(rpc.err)
    ELSE LET r == try_deserialize("RaydiumCamm", rpc.data)
         IN  IF ~r.ok THEN DeserializeError(r.err) ELSE OkPool(r.pool)

\* `AmmPool::V(handler(..)?)`: an Err of the handler is returned as it is.
Wrap(variant, r) == IF r.tag = "Ok" THEN AmmPool(variant, r.pool) ELSE r

\* A copy-paste slip in the match: the CAMM arm built like the CPMM arm.
get_info_struct_camm_as_cpmm(pool_type, rpc) ==
    CASE pool_type.kind = "PumpFun" ->
            Wrap("PumpFun", handle_pump_amm_deserialize(rpc))
      [] pool_type.kind = "RaydiumCpmmAmm" ->
            Wrap("RaydiumCpmmAmm", handle_raydium_cpmm_amm_deserialize(rpc))
      [] pool_type.kind = "RaydiumCamm" ->
            Wrap("RaydiumCpmmAmm", handle_raydium_cpmm_amm_deserialize(rpc))

\* The match arms keeping only the first field of the decoded record.
get_info_struct_first_field(pool_type, rpc) ==
    LET keep(r) == IF r.tag = "Ok"
                   THEN [r EXCEPT !.pool.fields = SubSeq(r.pool.fields, 1, 1)]
                   ELSE r
    IN  CASE pool_type.kind = "PumpFun" ->
                Wrap("PumpFun", keep(handle_pump_amm_deserialize(rpc)))
          [] pool_type.kind = "RaydiumCpmmAmm" ->
                Wrap("RaydiumCpmmAmm", keep(handle_raydium_cpmm_amm_deserialize(rpc)))
          [] pool_type.kind = "RaydiumCamm" ->
                Wrap("RaydiumCamm", keep(handle_raydium_camm_deserialize(rpc)))

\* get_info_struct, parsing.rs:152-169
get_info_struct(pool_type, rpc) ==
    CASE pool_type.kind = "PumpFun" ->
            Wrap("PumpFun", handle_pump_amm_deserialize(rpc))
      [] pool_type.kind = "RaydiumCpmmAmm" ->
            Wrap("RaydiumCpmmAmm", handle_raydium_cpmm_amm_deserialize(rpc))
      [] pool_type.kind = "RaydiumCamm" ->
            Wrap("RaydiumCamm", handle_raydium_camm_deserialize(rpc))

(***************************************************************************)
(* What the fetcher may return                                             *)
(***************************************************************************)
Headers == {DISCRIMINATOR(k) : k \in Kinds}

Payloads == [1..MaxPayload -> ByteVals]

\* An account of some other program: a discriminator that belongs to no kind,
\* followed by a payload.
ForeignAccount ==
    LET d == DISCRIMINATOR("RaydiumCamm")
    IN  [d EXCEPT ![Len(d)] = (d[Len(d)] + 1) % 256] \o [i \in 1..MaxPayload |-> 0]

\* Every prefix of a kind's discriminator followed by a payload, and the
\* foreign account.
AccountBytes ==
    UNION {{SubSeq(h \o p, 1, n) : n \in 0..Len(h \o p)} : h \in Headers, p \in Payloads}
        \cup {ForeignAccount}

FetchResults == {RpcOk(b) : b \in AccountBytes} \cup {RpcErr(e) : e \in ClientErrors}

(***************************************************************************)
(* State                                                                   *)
(***************************************************************************)
VARIABLES
    pool_type,     \* pool_type[c]: the selector call c was given
    pc,            \* pc[c]: Start, Fetched, Decoded, FailedFetch, FailedSchema
    data,          \* data[c]: the call's local `data`
    rpc_log,       \* rpc_log[c]: the get_account_data requests call c made
    decode_calls,  \* decode_calls[c]: how often call c ran try_deserialize
    ret            \* ret[c]: what call c returned

vars == <<pool_type, pc, data, rpc_log, decode_calls, ret>>

Terminal == {"Decoded", "FailedFetch", "FailedSchema"}

Init ==
    /\ pool_type \in [Calls -> PoolType]
    /\ pc = [c \in Calls |-> "Start"]
    /\ data = [c \in Calls |-> <<>>]
    /\ rpc_log = [c \in Calls |-> <<>>]
    /\ decode_calls = [c \in Calls |-> 0]
    /\ ret = [c \in Calls |-> Pending]

Outcome(r) ==
    CASE r.tag = "Ok" -> "Decoded"
      [] r.tag = "RpcError" -> "FailedFetch"
      [] r.tag = "DeserializeError" -> "FailedSchema"

\* get_account_data(..).unwrap_or_default(): a failed fetch decoded as no bytes.
GetAccountData_unwrap_or_default(c) ==
    /\ pc[c] = "Start"
    /\ \E rpc \in FetchResults :
        /\ rpc_log' = [rpc_log EXCEPT
               ![c] = Append(@, [address |-> program_id(pool_type[c]), result |-> rpc])]
        /\ data' = [data EXCEPT ![c] = rpc.data]
        /\ pc' = [pc EXCEPT ![c] = "Fetched"]
        /\ ret' = ret
    /\ UNCHANGED <<pool_type, decode_calls>>

\* A failed fetch tried a second time.
GetAccountData_retry(c) ==
    /\ pc[c] = "Start"
    /\ \E rpc \in FetchResults :
        /\ rpc_log' = [rpc_log EXCEPT
               ![c] = Append(@, [address |-> program_id(pool_type[c]), result |-> rpc])]
        /\ IF rpc.ok
           THEN /\ data' = [data EXCEPT ![c] = rpc.data]
                /\ pc' = [pc EXCEPT ![c] = "Fetched"]
                /\ ret' = ret
           ELSE IF Len(rpc_log[c]) = 0
           THEN UNCHANGED <<data, pc, ret>>
           ELSE /\ ret' = [ret EXCEPT ![c] = get_info_struct(pool_type[c], rpc)]
                /\ pc' = [pc EXCEPT ![c] = "FailedFetch"]
                /\ data' = data
    /\ UNCHANGED <<pool_type, decode_calls>>

\* The account fetched again after the decoder rejected the bytes.
GetAccountData_again_after_schema_error(c) ==
    /\ pc[c] \in {"Start", "FailedSchema"}
    /\ Len(rpc_log[c]) < 2
    /\ \E rpc \in FetchResults :
        /\ rpc_log' = [rpc_log EXCEPT
               ![c] = Append(@, [address |-> program_id(pool_type[c]), result |-> rpc])]
        /\ IF rpc.ok
           THEN /\ data' = [data EXCEPT ![c] = rpc.data]
                /\ pc' = [pc EXCEPT ![c] = "Fetched"]
                /\ ret' = [ret EXCEPT ![c] = Pending]
           ELSE /\ ret' = [ret EXCEPT ![c] = get_info_struct(pool_type[c], rpc)]
                /\ pc' = [pc EXCEPT ![c] = "FailedFetch"]
                /\ data' = data
    /\ UNCHANGED <<pool_type, decode_calls>>

\* con.get_account_data(&program_id) and the match on it,
\* parsing.rs:66-69, 81-84, 96-99
GetAccountData(c) ==
    /\ pc[c] = "Start"
    /\ \E rpc \in FetchResults :
        /\ rpc_log' = [rpc_log EXCEPT
               ![c] = Append(@, [address |-> program_id(pool_type[c]), result |-> rpc])]
        /\ IF rpc.ok
           THEN /\ data' = [data EXCEPT ![c] = rpc.data]
                /\ pc' = [pc EXCEPT ![c] = "Fetched"]
                /\ ret' = ret
           ELSE /\ ret' = [ret EXCEPT ![c] = get_info_struct(pool_type[c], rpc)]
                /\ pc' = [pc EXCEPT ![c] = "FailedFetch"]
                /\ data' = data
    /\ UNCHANGED <<pool_type, decode_calls>>

\* The byte buffer kept in one place for all calls: the latest fetch wins.
TryDeserialize_shared_buffer(c) ==
    /\ pc[c] = "Fetched"
    /\ decode_calls' = [decode_calls EXCEPT ![c] = @ + 1]
    /\ LET other == CHOOSE d \in Calls : d # c
           buf == IF pc[other] = "Fetched" THEN data[other] ELSE data[c]
       IN  ret' = [ret EXCEPT ![c] = get_info_struct(pool_type[c], RpcOk(buf))]
    /\ pc' = [pc EXCEPT ![c] = Outcome(ret'[c])]
    /\ UNCHANGED <<pool_type, data, rpc_log>>

\* The read cursor kept across calls: a decode that follows another call's
\* decode starts past the discriminator.
TryDeserialize_shared_cursor(c) ==
    /\ pc[c] = "Fetched"
    /\ decode_calls' = [decode_calls EXCEPT ![c] = @ + 1]
    /\ LET buf == IF \E d \in Calls \ {c} : decode_calls[d] > 0
                  THEN Drop(data[c], Len(DISCRIMINATOR(pool_type[c].kind)))
                  ELSE data[c]
       IN  ret' = [ret EXCEPT ![c] = get_info_struct(pool_type[c], RpcOk(buf))]
    /\ pc' = [pc EXCEPT ![c] = Outcome(ret'[c])]
    /\ UNCHANGED <<pool_type, data, rpc_log>>

\* T::try_deserialize(&mut &data[..]), the match on it and the return,
\* parsing.rs:70-74, 85-89, 100-104, 156-168
TryDeserialize(c) ==
    /\ pc[c] = "Fetched"
    /\ decode_calls' = [decode_calls EXCEPT ![c] = @ + 1]
    /\ ret' = [ret EXCEPT ![c] = get_info_struct(pool_type[c], RpcOk(data[c]))]
    /\ pc' = [pc EXCEPT ![c] = Outcome(ret'[c])]
    /\ UNCHANGED <<pool_type, data, rpc_log>>

Next == \E c \in Calls : GetAccountData(c) \/ TryDeserialize(c)

Spec == Init /\ [][Next]_vars

(***************************************************************************)
(* Vocabulary of the properties                                            *)
(***************************************************************************)
Done(c) == pc[c] \in Terminal

Asked(c) == Len(rpc_log[c]) > 0

\* What the fetcher answered to call c's first request.
Fetched(c) == rpc_log[c][1].result

IsPrefix(a, b) == Len(a) <= Len(b) /\ SubSeq(b, 1, Len(a)) = a

RECURSIVE Sum(_)
Sum(widths) == IF widths = <<>> THEN 0 ELSE Head(widths) + Sum(Tail(widths))

\* Bytes up to the end of the last field of a kind's layout.
RequiredLen(kind) == Len(DISCRIMINATOR(kind)) + Sum(Layout(kind))

StartsWith(buf, kind) == IsPrefix(DISCRIMINATOR(kind), buf)

\* C1: when the account fetch fails, the call returns RpcError carrying the
\* fetcher's error, and try_deserialize has run zero times in that call.
C1_FetchFailureShortCircuits ==
    \A c \in Calls :
        (Asked(c) /\ ~Fetched(c).ok) =>
            /\ pc[c] = "FailedFetch"
            /\ ret[c] = RpcError(Fetched(c).err)
            /\ decode_calls[c] = 0

C1_Witness ==
    \E c \in Calls :
        /\ pc[c] = "FailedFetch"
        /\ ~Fetched(c).ok
        /\ ret[c].tag = "RpcError"
        /\ pool_type[c].kind = "RaydiumCamm"

\* C2: a successful return carries the variant of the selector passed in; the
\* two Raydium kinds, which share a display name, never carry each other's tag.
C2_VariantMatchesSelector ==
    \A c \in Calls : ret[c].tag = "Ok" => ret[c].variant = pool_type[c].kind

C2_Witness ==
    \E c, d \in Calls :
        /\ ret[c].tag = "Ok" /\ pool_type[c].kind = "RaydiumCamm"
        /\ ret[d].tag = "Ok" /\ pool_type[d].kind = "RaydiumCpmmAmm"
        /\ pool_name(pool_type[c]) = pool_name(pool_type[d])

\* C3: when the fetch succeeds and the kind's try_deserialize rejects the
\* bytes, the call returns DeserializeError with the decoder's error: never
\* RpcError, never a success holding a default or empty pool.
C3_DecodeFailureIsSchemaError ==
    \A c \in Calls :
        (Done(c) /\ Fetched(c).ok
            /\ ~try_deserialize(pool_type[c].kind, Fetched(c).data).ok) =>
            /\ pc[c] = "FailedSchema"
            /\ ret[c] =
                 DeserializeError(try_deserialize(pool_type[c].kind, Fetched(c).data).err)

C3_Witness ==
    \E c, d \in Calls :
        /\ pc[c] = "FailedSchema" /\ ret[c].cause = "AccountDiscriminatorMismatch"
        /\ pc[d] = "FailedSchema" /\ ret[d].cause = "AccountDidNotDeserialize"

\* C4: a call asks the fetcher exactly once, for the address its selector
\* carries, on every path; there is no second request.
C4_ExactlyOneFetch ==
    \A c \in Calls :
        /\ Len(rpc_log[c]) <= 1
        /\ pc[c] # "Start" =>
              /\ Len(rpc_log[c]) = 1
              /\ rpc_log[c][1].address = pool_type[c].program_id

C4_Witness ==
    \E c, d \in Calls :
        /\ pc[c] = "FailedFetch" /\ Len(rpc_log[c]) = 1
        /\ pc[d] = "FailedSchema" /\ Len(rpc_log[d]) = 1
        /\ pool_type[c].program_id # pool_type[d].program_id

\* C5: requesting kind K for bytes that begin with the discriminator of a
\* different kind K' yields DeserializeError, never a success.
C5_OtherKindsDiscriminatorRejected ==
    \A c \in Calls : \A k \in Kinds \ {pool_type[c].kind} :
        (Done(c) /\ Fetched(c).ok /\ StartsWith(Fetched(c).data, k)) =>
            ret[c].tag = "DeserializeError"

\* The kind-K byte sequences the decoder accepts, and their prefixes that stop
\* short of the end of the last field.
Valid == [k \in Kinds |-> {v \in AccountBytes : try_deserialize(k, v).ok}]

Truncated ==
    [k \in Kinds |->
        UNION {{SubSeq(v, 1, n) : n \in 0..(RequiredLen(k) - 1)} : v \in Valid[k]}]

\* C6: a prefix of a valid kind-K byte sequence that stops short of the end
\* of the last field (the empty sequence and prefixes shorter than the
\* discriminator included) yields DeserializeError when decoded as kind K.
C6_TruncationRejected ==
    \A c \in Calls :
        (Done(c) /\ Fetched(c).ok
            /\ Fetched(c).data \in Truncated[pool_type[c].kind]) =>
            /\ ret[c].tag = "DeserializeError"
            /\ ret[c].pool = NoPool

C6_Witness ==
    \E c, d \in Calls :
        /\ pc[c] = "FailedSchema" /\ pool_type[c].kind = "RaydiumCamm"
        /\ Len(Fetched(c).data) = RequiredLen("RaydiumCamm") - 1
        /\ StartsWith(Fetched(c).data, "RaydiumCamm")
        /\ pc[d] = "FailedSchema" /\ Fetched(d).ok /\ Fetched(d).data = <<>>

\* C7: when the fetch succeeds with bytes the kind's decoder accepts, the
\* call succeeds and the record it returns is the decoder's record, with no
\* field altered, dropped or defaulted.
C7_RecordReturnedUnchanged ==
    \A c \in Calls :
        (Done(c) /\ Fetched(c).ok
            /\ try_deserialize(pool_type[c].kind, Fetched(c).data).ok) =>
            /\ ret[c].tag = "Ok"
            /\ ret[c].pool = try_deserialize(pool_type[c].kind, Fetched(c).data).pool

C7_Witness ==
    \E c \in Calls :
        /\ pc[c] = "Decoded"
        /\ pool_type[c].kind = "PumpFun"
        /\ ret[c].pool = [type |-> "pamm::accounts::Pool", fields |-> <<1, 257>>]

Steps ==
    {<<"Start", "Fetched">>, <<"Start", "FailedFetch">>,
     <<"Fetched", "Decoded">>, <<"Fetched", "FailedSchema">>}

\* The return value that goes with each position.
PositionMatchesReturn(c) ==
    /\ pc[c] \in {"Start", "Fetched"} <=> ret[c].tag = "Pending"
    /\ pc[c] = "Decoded" <=> ret[c].tag = "Ok"
    /\ pc[c] = "FailedFetch" <=> ret[c].tag = "RpcError"
    /\ pc[c] = "FailedSchema" <=> ret[c].tag = "DeserializeError"

\* C9: a call moves Start -> Fetched -> Decoded, leaving early only from
\* Start to FailedFetch and from Fetched to FailedSchema; a call that has not
\* ended can always take its next step, and every step moves it forward, so
\* it ends in one of Decoded, FailedFetch, FailedSchema, each a returned
\* value; Fetched, Decoded and FailedSchema come only after a successful
\* fetch; an ended call never changes again.
C9_LinearStateMachine ==
    /\ [](\A c \in Calls :
            /\ PositionMatchesReturn(c)
            /\ ~Done(c) => ENABLED (GetAccountData(c) \/ TryDeserialize(c))
            /\ pc[c] \in {"Fetched", "Decoded", "FailedSchema"} =>
                  (Asked(c) /\ Fetched(c).ok))
    /\ [][\A c \in Calls :
            /\ pc'[c] # pc[c] => <<pc[c], pc'[c]>> \in Steps
            /\ Done(c) => (pc'[c] = pc[c] /\ ret'[c] = ret[c])]_vars

C9_Witness ==
    \E c, d \in Calls : pc[c] = "Decoded" /\ pc[d] = "FailedSchema"

\* C10: under every interleaving of the calls, each call's buffer holds the
\* bytes its own fetch returned, and its result is the one get_info_struct
\* gives for its own selector and its own fetch.
C10_CallsIndependent ==
    \A c \in Calls :
        /\ pc[c] = "Fetched" => data[c] = Fetched(c).data
        /\ Done(c) => ret[c] = get_info_struct(pool_type[c], Fetched(c))

C10_Witness ==
    \E c, d \in Calls :
        /\ pool_type[c] # pool_type[d]
        /\ pc[c] = "Decoded" /\ pc[d] = "Decoded"
        /\ Fetched(c) # Fetched(d)
        /\ ret[c] # ret[d]

====
